---- MODULE Spec2Model ----
\* Model of master.py: UnnestTransformer (an ast.NodeTransformer) and the
\* driver unnest_code, which parses a module, visits it and calls post_visit.
\* AST nodes are records carrying the ast class name in "type" and the
\* class's fields under their Python names.
EXTENDS Integers, Sequences, FiniteSets, TLC

VARIABLES
    code,          \* the parsed input module, as ast.parse(code) returns it
    tree,          \* the same module, mutated in place by the transformer
    var_counter,   \* UnnestTransformer.var_counter
    assignments,   \* UnnestTransformer.assignments
    pc,            \* position of unnest_code / of the traversal
    fi,            \* index in Module.body of the FunctionDef being visited
    si             \* index in FunctionDef.body of the statement visited next

vars == <<code, tree, var_counter, assignments, pc, fi, si>>

\* Total number of statements of the input module.
MaxStmts == 3

----------------------------------------------------------------------------
\* AST node constructors (the ast classes the transformer meets).

Name(id) == [type |-> "Name", id |-> id]

Constant(value) == [type |-> "Constant", value |-> value]

BinOp(left, op, right) ==
    [type |-> "BinOp", left |-> left, op |-> op, right |-> right]

UnaryOp(op, operand) == [type |-> "UnaryOp", op |-> op, operand |-> operand]

keyword(arg, value) == [type |-> "keyword", arg |-> arg, value |-> value]

Call(func, args, keywords) ==
    [type |-> "Call", func |-> func, args |-> args, keywords |-> keywords]

Assign(targets, value) ==
    [type |-> "Assign", targets |-> targets, value |-> value]

Return(value) == [type |-> "Return", value |-> value]

Expr(value) == [type |-> "Expr", value |-> value]

FunctionDef(body) == [type |-> "FunctionDef", body |-> body]

Module(body) == [type |-> "Module", body |-> body]

----------------------------------------------------------------------------
\* The transformer's methods. A method that mutates self takes the pair
\* [var_counter, assignments] and returns the node it returns together with
\* the pair after the call.

\* isinstance(x, (ast.Name, ast.Constant))
IsSimple(x) == x.type \in {"Name", "Constant"}

\* f"v{self.var_counter}"
TempId(n) == "v" \o ToString(n)

\* __init__: a fresh transformer.
UnnestTransformer == [var_counter |-> 0, assignments |-> <<>>]

\* visit_FunctionDef without its two resetting assignments.
visit_FunctionDef_no_reset(self) == self

\* What visit_FunctionDef does to self before descending into the body.
visit_FunctionDef_reset(self) == [var_counter |-> 0, assignments |-> <<>>]

\* extract_complex_expression without self.var_counter += 1.
extract_complex_expression_no_increment(node, self) ==
    LET new_var == Name(TempId(self.var_counter))
        assign  == Assign(<<new_var>>, node)
    IN [node |-> new_var,
        self |-> [var_counter |-> self.var_counter,
                  assignments |-> Append(self.assignments, assign)]]

extract_complex_expression(node, self) ==
    LET new_var == Name(TempId(self.var_counter))
        assign  == Assign(<<new_var>>, node)
    IN [node |-> new_var,
        self |-> [var_counter |-> self.var_counter + 1,
                  assignments |-> Append(self.assignments, assign)]]

\* visit_BinOp extracting whatever its operands are.
visit_BinOp_always_extract(node, self) ==
    extract_complex_expression(node, self)

visit_BinOp(node, self) ==
    IF ~IsSimple(node.left) \/ ~IsSimple(node.right)
    THEN extract_complex_expression(node, self)
    ELSE [node |-> node, self |-> self]

visit_UnaryOp(node, self) ==
    IF ~IsSimple(node.operand)
    THEN extract_complex_expression(node, self)
    ELSE [node |-> node, self |-> self]

\* The for loop of visit_Call over node.args, from position i on.
RECURSIVE visit_Call_loop(_, _, _, _)
visit_Call_loop(args, i, new_args, self) ==
    IF i > Len(args)
    THEN [new_args |-> new_args, self |-> self]
    ELSE LET arg == args[i] IN
         IF ~IsSimple(arg)
         THEN LET new_var == Name(TempId(self.var_counter))
                  assign  == Assign(<<new_var>>, arg)
              IN visit_Call_loop(args, i + 1, Append(new_args, new_var),
                     [var_counter |-> self.var_counter + 1,
                      assignments |-> Append(self.assignments, assign)])
         ELSE visit_Call_loop(args, i + 1, Append(new_args, arg), self)

Reverse(s) == [i \in 1..Len(s) |-> s[Len(s) + 1 - i]]

\* visit_Call iterating over reversed(node.args).
visit_Call_right_to_left(node, self) ==
    LET r == visit_Call_loop(Reverse(node.args), 1, <<>>, self)
    IN [node |-> [node EXCEPT !.args = Reverse(r.new_args)], self |-> r.self]

visit_Call(node, self) ==
    LET r == visit_Call_loop(node.args, 1, <<>>, self)
    IN [node |-> [node EXCEPT !.args = r.new_args], self |-> r.self]

visit_Return(node, self) ==
    IF ~IsSimple(node.value)
    THEN LET new_var == Name(TempId(self.var_counter))
             assign  == Assign(<<new_var>>, node.value)
         IN [node |-> [node EXCEPT !.value = new_var],
             self |-> [var_counter |-> self.var_counter + 1,
                       assignments |-> Append(self.assignments, assign)]]
    ELSE [node |-> node, self |-> self]

\* NodeTransformer.visit dispatches on the class name to visit_<Class>, and to
\* generic_visit when the transformer defines none. generic_visit visits the
\* child nodes: the value of an Assign or Expr statement (its Name targets and
\* the leaves have no child the transformer changes).
RECURSIVE visit(_, _)
generic_visit(node, self) ==
    IF node.type \in {"Assign", "Expr"}
    THEN LET r == visit(node.value, self)
         IN [node |-> [node EXCEPT !.value = r.node], self |-> r.self]
    ELSE [node |-> node, self |-> self]

visit(node, self) ==
    CASE node.type = "BinOp"   -> visit_BinOp(node, self)
      [] node.type = "UnaryOp" -> visit_UnaryOp(node, self)
      [] node.type = "Call"    -> visit_Call(node, self)
      [] node.type = "Return"  -> visit_Return(node, self)
      [] OTHER                 -> generic_visit(node, self)

\* generic_visit of a FunctionDef: its body, statement by statement.
RECURSIVE visit_body(_, _, _)
visit_body(body, i, self) ==
    IF i > Len(body)
    THEN [body |-> body, self |-> self]
    ELSE LET r == visit(body[i], self)
         IN visit_body([body EXCEPT ![i] = r.node], i + 1, r.self)

post_visit(node, self) ==
    IF node.type = "FunctionDef"
    THEN [node EXCEPT !.body = self.assignments \o node.body]
    ELSE node

----------------------------------------------------------------------------
\* Inputs: modules of FunctionDefs whose bodies are drawn from these statements.

Stmts ==
    { \* return f(-a, b + c)
      Return(Call(Name("f"), <<UnaryOp("-", Name("a")),
                               BinOp(Name("b"), "+", Name("c"))>>, <<>>)),
      \* a = x * 2 + sin(x)
      Assign(<<Name("a")>>,
             BinOp(BinOp(Name("x"), "*", Constant(2)), "+",
                   Call(Name("sin"), <<Name("x")>>, <<>>))),
      \* return a
      Return(Name("a")),
      \* return a + 1
      Return(BinOp(Name("a"), "+", Constant(1))),
      \* a = x * 2
      Assign(<<Name("a")>>, BinOp(Name("x"), "*", Constant(2))),
      \* b = f(x + 1, k=x + 2)
      Assign(<<Name("b")>>,
             Call(Name("f"), <<BinOp(Name("x"), "+", Constant(1))>>,
                  <<keyword("k", BinOp(Name("x"), "+", Constant(2)))>>)),
      \* g(-x, x * (x + 1))
      Expr(Call(Name("g"), <<UnaryOp("-", Name("x")),
                             BinOp(Name("x"), "*",
                                   BinOp(Name("x"), "+", Constant(1)))>>,
                <<>>)),
      \* b = -(-a)
      Assign(<<Name("b")>>, UnaryOp("-", UnaryOp("-", Name("a")))),
      \* sin(x)
      Expr(Call(Name("sin"), <<Name("x")>>, <<>>)),
      \* b = -a
      Assign(<<Name("b")>>, UnaryOp("-", Name("a"))) }

\* The module whose statements are stmts, in this order, with a new FunctionDef
\* starting after each position in cuts: Module.body from FunctionDef `from` on.
RECURSIVE FunctionDefs(_, _, _)
FunctionDefs(stmts, cuts, from) ==
    IF from > Len(stmts) THEN <<>>
    ELSE LET ends == { c \in cuts \cup {Len(stmts)} : c >= from }
             to   == CHOOSE c \in ends : \A d \in ends : c <= d
         IN <<FunctionDef(SubSeq(stmts, from, to))>>
            \o FunctionDefs(stmts, cuts, to + 1)

Parsed(stmts, cuts) == Module(FunctionDefs(stmts, cuts, 1))

----------------------------------------------------------------------------
\* unnest_code: tree = ast.parse(code); transformer = UnnestTransformer();
\* transformer.visit(tree); transformer.post_visit(tree).

self == [var_counter |-> var_counter, assignments |-> assignments]

Init ==
    /\ \E n \in 1..MaxStmts : \E stmts \in [1..n -> Stmts] :
         \E cuts \in SUBSET (1..(n - 1)) : code = Parsed(stmts, cuts)
    /\ tree = code
    /\ var_counter = UnnestTransformer.var_counter
    /\ assignments = UnnestTransformer.assignments
    /\ pc = "FunctionDef"
    /\ fi = 1
    /\ si = 1

\* visit_FunctionDef on Module.body[fi], up to the descent into its body.
VisitFunctionDef ==
    /\ pc = "FunctionDef"
    /\ LET s == visit_FunctionDef_reset(self) IN
         /\ var_counter' = s.var_counter
         /\ assignments' = s.assignments
    /\ pc' = "body"
    /\ si' = 1
    /\ UNCHANGED <<code, tree, fi>>

\* visit of statement si of FunctionDef fi, and the step of the enclosing
\* generic_visit loops to the next statement, the next FunctionDef or the end.
VisitStmt(type) ==
    /\ pc = "body"
    /\ tree.body[fi].body[si].type = type
    /\ LET r == visit(tree.body[fi].body[si], self) IN
         /\ tree' = [tree EXCEPT !.body[fi].body[si] = r.node]
         /\ var_counter' = r.self.var_counter
         /\ assignments' = r.self.assignments
    /\ IF si < Len(tree.body[fi].body)
       THEN /\ si' = si + 1
            /\ UNCHANGED <<pc, fi>>
       ELSE IF fi < Len(tree.body)
       THEN /\ fi' = fi + 1
            /\ pc' = "FunctionDef"
            /\ UNCHANGED si
       ELSE /\ pc' = "post_visit"
            /\ UNCHANGED <<fi, si>>
    /\ UNCHANGED code

VisitReturn == VisitStmt("Return")

VisitAssign == VisitStmt("Assign")

VisitExpr == VisitStmt("Expr")

\* new_tree = transformer.post_visit(new_tree), new_tree being the Module.
PostVisit ==
    /\ pc = "post_visit"
    /\ tree' = post_visit(tree, self)
    /\ pc' = "done"
    /\ UNCHANGED <<code, var_counter, assignments, fi, si>>

Next ==
    \/ VisitFunctionDef
    \/ VisitReturn
    \/ VisitAssign
    \/ VisitExpr
    \/ PostVisit

Spec == Init /\ [][Next]_vars

----------------------------------------------------------------------------
\* Vocabulary of the properties.

\* All nodes of an expression, children before parents, left to right.
RECURSIVE PostOrder(_)
RECURSIVE PostOrderAll(_, _)
PostOrderAll(es, i) ==
    IF i > Len(es) THEN <<>> ELSE PostOrder(es[i]) \o PostOrderAll(es, i + 1)

PostOrder(e) ==
    CASE e.type = "BinOp"   -> PostOrder(e.left) \o PostOrder(e.right) \o <<e>>
      [] e.type = "UnaryOp" -> PostOrder(e.operand) \o <<e>>
      [] e.type = "Call"    ->
            PostOrder(e.func) \o PostOrderAll(e.args, 1)
            \o PostOrderAll([k \in DOMAIN e.keywords |-> e.keywords[k].value], 1)
            \o <<e>>
      [] OTHER              -> <<e>>

\* The nodes of the expressions of a statement list, in encounter order.
RECURSIVE PostOrderBody(_, _)
PostOrderBody(body, i) ==
    IF i > Len(body) THEN <<>>
    ELSE PostOrder(body[i].value) \o PostOrderBody(body, i + 1)

\* Both operands of a BinOp, the operand of a UnaryOp and the positional
\* arguments of a Call are Names or Constants.
OperandsSimple(n) ==
    CASE n.type = "BinOp"   -> IsSimple(n.left) /\ IsSimple(n.right)
      [] n.type = "UnaryOp" -> IsSimple(n.operand)
      [] n.type = "Call"    -> \A k \in DOMAIN n.args : IsSimple(n.args[k])
      [] OTHER              -> TRUE

KeywordsSimple(n) ==
    n.type = "Call" => \A k \in DOMAIN n.keywords : IsSimple(n.keywords[k].value)

\* Every operation anywhere in the statement list has simple operands.
Flat(body) ==
    LET ns == PostOrderBody(body, 1)
    IN \A k \in DOMAIN ns : OperandsSimple(ns[k])

FlatWithKeywords(body) ==
    LET ns == PostOrderBody(body, 1)
    IN \A k \in DOMAIN ns : OperandsSimple(ns[k]) /\ KeywordsSimple(ns[k])

ReturnsSimple(body) ==
    \A k \in DOMAIN body : body[k].type = "Return" => IsSimple(body[k].value)

\* The identifiers an expression reads.
NamesRead(e) ==
    LET ns == PostOrder(e)
    IN { ns[k].id : k \in { j \in DOMAIN ns : ns[j].type = "Name" } }

\* The identifiers the statements of a body assign.
NamesAssigned(body) ==
    { body[k].targets[1].id :
        k \in { j \in DOMAIN body : body[j].type = "Assign" } }

\* s is t with some elements left out.
RECURSIVE Embeds(_, _, _, _)
Embeds(s, i, t, j) ==
    IF i > Len(s) THEN TRUE
    ELSE IF j > Len(t) THEN FALSE
    ELSE IF s[i] = t[j] THEN Embeds(s, i + 1, t, j + 1)
    ELSE Embeds(s, i, t, j + 1)

IsPrefix(s, t) == Len(s) <= Len(t) /\ SubSeq(t, 1, Len(s)) = s

\* The FunctionDef whose temporaries the transformer holds, 0 before the first.
Current == IF pc = "FunctionDef" THEN fi - 1 ELSE fi

\* The statements of the current FunctionDef, as parsed, visited so far.
Visited ==
    IF Current = 0 THEN <<>>
    ELSE IF pc = "body" THEN SubSeq(code.body[fi].body, 1, si - 1)
    ELSE code.body[Current].body

\* FunctionDef i has been visited to its end and no later one has been entered.
Finished(i) == pc # "body" /\ Current = i

\* Flattening a body on its own: a fresh counter and list, every statement.
Flattened(body) == visit_body(body, 1, UnnestTransformer)

Scenario1 ==
    <<Return(Call(Name("f"), <<UnaryOp("-", Name("a")),
                               BinOp(Name("b"), "+", Name("c"))>>, <<>>))>>

Scenario3 ==
    <<Assign(<<Name("a")>>,
             BinOp(BinOp(Name("x"), "*", Constant(2)), "+",
                   Call(Name("sin"), <<Name("x")>>, <<>>))),
      Return(Name("a"))>>

----------------------------------------------------------------------------
\* C1: when the driver is done, the body of every FunctionDef is the
\* assignments synthesized while visiting it followed by its rewritten
\* statements.
C1_OutputIsAssignmentsThenBody ==
    pc = "done" =>
        \A i \in DOMAIN tree.body :
            LET r == Flattened(code.body[i].body)
            IN tree.body[i].body = r.self.assignments \o r.body

\* C2: in the output (the rewritten statements and the right-hand sides of
\* the synthesized assignments) every BinOp, UnaryOp and Call has only Names
\* and Constants as operands and positional arguments.
C2_SimplicityInvariant ==
    /\ Flat(assignments)
    /\ pc = "done" => \A i \in DOMAIN tree.body : Flat(tree.body[i].body)

\* C3: Scenario 1, return f(-a, b + c), yields v0 = -a, v1 = b + c and
\* return f(v0, v1).
C3_Scenario1 ==
    \A i \in DOMAIN code.body :
        (Finished(i) /\ code.body[i].body = Scenario1) =>
            /\ assignments =
                 <<Assign(<<Name("v0")>>, UnaryOp("-", Name("a"))),
                   Assign(<<Name("v1")>>, BinOp(Name("b"), "+", Name("c")))>>
            /\ tree.body[i].body =
                 <<Return(Call(Name("f"), <<Name("v0"), Name("v1")>>, <<>>))>>

\* C4: Scenario 3, a = x * 2 + sin(x); return a, yields v0 = x * 2,
\* v1 = v0 + sin(x) and the statements a = v1; return a.
C4_Scenario3 ==
    \A i \in DOMAIN code.body :
        (Finished(i) /\ code.body[i].body = Scenario3) =>
            /\ assignments =
                 <<Assign(<<Name("v0")>>, BinOp(Name("x"), "*", Constant(2))),
                   Assign(<<Name("v1")>>,
                          BinOp(Name("v0"), "+",
                                Call(Name("sin"), <<Name("x")>>, <<>>)))>>
            /\ tree.body[i].body =
                 <<Assign(<<Name("a")>>, Name("v1")), Return(Name("a"))>>

\* C5: after a Call has been visited (the value of an Assign or of an
\* expression statement), each of its keyword values is a Name or Constant,
\* the compound ones having been replaced by temporaries, and its callee is
\* the one parsed.
C5_KeywordsExtracted ==
    pc = "done" =>
        \A i \in DOMAIN tree.body : \A j \in DOMAIN tree.body[i].body :
            LET old == code.body[i].body[j]
                new == tree.body[i].body[j]
            IN (old.type \in {"Assign", "Expr"} /\ old.value.type = "Call") =>
                   /\ new.value.type = "Call"
                   /\ new.value.func = old.value.func
                   /\ KeywordsSimple(new.value)

\* C6: the temporaries minted for one FunctionDef are pairwise distinct.
C6_TemporariesDistinct ==
    \A i, j \in DOMAIN assignments :
        i # j => assignments[i].targets[1].id # assignments[j].targets[1].id

C6_Witness ==
    /\ Len(assignments) = 4
    /\ assignments[1].value.type = "BinOp"
    /\ tree.body[fi].body[1].type = "Assign"
    /\ tree.body[fi].body[2].type = "Expr"
    /\ tree.body[fi].body[3].type = "Return"
    /\ pc = "post_visit"

\* C7: the counter and the pending list a FunctionDef is visited with are
\* those of a transformer that has visited nothing but this FunctionDef: its
\* first temporary is v0 and no assignment of an earlier FunctionDef is
\* pending.
C7_ScopeIsolation ==
    pc = "body" =>
        LET r == Flattened(Visited)
        IN /\ var_counter = r.self.var_counter
           /\ assignments = r.self.assignments
           /\ assignments # <<>> => assignments[1].targets[1].id = "v0"

C7_Witness ==
    /\ pc = "body"
    /\ fi = 2
    /\ tree.body[1] # code.body[1]
    /\ assignments # <<>>
    /\ assignments[1].targets[1].id = "v0"

\* C8: while a FunctionDef is visited the pending list only grows at its
\* end, its k-th assignment targets v<k-1>, and the expressions it holds
\* appear in the order a left-to-right, children-first walk of the visited
\* statements meets them.
C8_OrderPreserved ==
    [][ pc = "body" =>
          /\ IsPrefix(assignments, assignments')
          /\ \A k \in DOMAIN assignments' :
                 assignments'[k].targets = <<Name(TempId(k - 1))>>
          /\ Embeds([k \in DOMAIN assignments' |-> assignments'[k].value], 1,
                    PostOrderBody(Visited', 1), 1) ]_vars

C8_Witness ==
    /\ Len(assignments) = 3
    /\ assignments[1].value.type = "UnaryOp"
    /\ assignments[2].value.type = "BinOp"
    /\ tree.body[fi].body[1].type = "Expr"
    /\ tree.body[fi].body[2].type = "Return"
    /\ pc = "post_visit"

\* C9 as claimed: a FunctionDef all of whose operations have simple operands
\* and arguments, those that are the value of a Return included, is left as
\* parsed and mints nothing.
C9_IdempotentOnSimpleOperands ==
    \A i \in DOMAIN code.body :
        (Finished(i) /\ FlatWithKeywords(code.body[i].body)) =>
            /\ var_counter = 0
            /\ assignments = <<>>
            /\ tree.body[i] = code.body[i]

\* C9 amended: a FunctionDef all of whose operations have simple operands and
\* arguments and all of whose Return values are Names or Constants is left as
\* parsed and mints nothing.
C9_IdempotentWhenReturnsSimple ==
    \A i \in DOMAIN code.body :
        (/\ Finished(i)
         /\ FlatWithKeywords(code.body[i].body)
         /\ ReturnsSimple(code.body[i].body)) =>
            /\ var_counter = 0
            /\ assignments = <<>>
            /\ tree.body[i] = code.body[i]

C9_Witness ==
    /\ Finished(fi)
    /\ FlatWithKeywords(code.body[fi].body)
    /\ ReturnsSimple(code.body[fi].body)
    /\ \E j \in DOMAIN code.body[fi].body :
           code.body[fi].body[j].value.type = "BinOp"
    /\ \E j \in DOMAIN code.body[fi].body :
           code.body[fi].body[j].value.type = "Call"
    /\ \E j \in DOMAIN code.body[fi].body :
           code.body[fi].body[j].type = "Return"
    /\ assignments = <<>>

\* C10: the right-hand side of a synthesized assignment reads no name that a
\* statement of the FunctionDef's body assigns; checked, as each statement is
\* visited, of the assignments it adds against the statements above it.
C10_HoistingSound ==
    [][ pc = "body" =>
          \A k \in (DOMAIN assignments') \ (DOMAIN assignments) :
              NamesRead(assignments'[k].value) \cap NamesAssigned(Visited)
                  = {} ]_vars

====
